---- MODULE Spec2Model ----
(***************************************************************************)
(* ARchivist: the context-window engine (SlidingWindowContext) and the     *)
(* resumable scan driver (analyze / ProcessingState).                      *)
(***************************************************************************)
EXTENDS Integers, Sequences, FiniteSets, TLC

\* ------------------------------------------------------------------ bounds
\* longest transcript handed to the engine
MaxLen == 3
\* largest window_size the engine is configured with
MaxWindow == 1
\* largest reply_depth the engine is configured with
MaxDepth == 2
\* largest message id of a chat export given to analyze
MaxId == 3
\* number of analyze runs started
MaxRuns == 2

\* records appended to the caller's list after the engine was built
MaxAdded == 1

\* lines of a pull stream
MaxLines == 3

\* ----------------------------------------------------------- message records
\* reply_to_message_id: Optional[int] = None; None is written 0 (both are falsy
\* in `message.reply_to_message_id` of _get_reply_chain, ids are >= 1)
None == 0

\* A UserMessage: type "message", with a reply_to_message_id.
UserMessage(i, r) == [id |-> i, type |-> "message", reply_to_message_id |-> r]

\* A ServiceMessage: type "service"; the class has no reply_to_message_id.
ServiceMessage(i) == [id |-> i, type |-> "service", reply_to_message_id |-> None]

\* An element of the list that is no TelegramMessage (the test's "not a message").
NotAMessage == [id |-> 0, type |-> "str", reply_to_message_id |-> None]

\* isinstance(msg, TelegramMessage)
IsTelegramMessage(m) == m.type \in {"message", "service"}

\* isinstance(message, UserMessage)
IsUserMessage(m) == m.type = "message"

VARIABLES
    messages,                 \* the caller's list; self._messages is the same list object
    constructed,              \* "no" | "ok" | "TypeError": outcome of __init__
    message_map,              \* self._message_map: id -> record
    window_size,              \* self.window_size
    reply_depth,              \* self.reply_depth
    include_current_message,  \* self.include_current_message
    warned,                   \* __init__ logged "Messages are not sorted by ID"
    op,                       \* the caller's position: "start", then the operation performed last
    target,                   \* argument of the last get_context_for_message
    result,                   \* value returned by the last get_context_for_message
    hops,                     \* parents appended by the last reply-chain walk
    iter_pos,                 \* iterate_with_context: messages consumed by the generator
    yielded,                  \* iterate_with_context: pairs yielded so far by this pass
    first_yielded,            \* the pairs the first complete pass yielded
    at_construction           \* the records the list held when __init__ ran

engine_vars == <<messages, constructed, message_map, window_size, reply_depth,
                 include_current_message, warned, op, target, result, hops,
                 iter_pos, yielded, first_yielded, at_construction>>

VARIABLES
    chat_file,        \* the chat export on disk: [kind, ids]
    state_file,       \* data/processing_state.json on disk: [kind, st]
    state,            \* the ProcessingState object of the running analyze
    pc,               \* position of analyze: "idle", "started", "loop", "record"
    outcome,          \* how the last analyze run went, "none" before the first
    chat_export_path, \* the argument of the running analyze
    chat_messages,    \* ids of chat.messages as loaded by this run
    start_index,      \* start_index computed by this run
    pos,              \* 0-indexed position in chat.messages of the loop's next message
    resume_id,        \* state.last_processed_message_id when this run looked for its start
    run_processed,    \* ids of the messages this run has processed, in order
    runs,             \* analyze runs started so far; the clock of the timestamps
    answer,           \* this run's path conflict: "none", "confirmed" or "declined"
    file_at_start,    \* state_file as it was when this run (or operation) began
    status_log,       \* the values this run has assigned to state.status, in order
    persisted,        \* ids of the messages whose progress a save of this run wrote
    prev_run,         \* the interrupted run that this run restarts on the same export
    steps,            \* progress recordings made on the state object since it was new or reset
    steps_saved,      \* the value of steps that the state file holds
    processed_ever    \* ids processed since the stored state was last reset (or ever)

\* what the log of a run is made of
run_log == <<answer, file_at_start, status_log, persisted>>

\* what is kept across runs
history == <<prev_run, steps, steps_saved, processed_ever>>

driver_vars == <<chat_file, state_file, state, pc, outcome, chat_export_path,
                 chat_messages, start_index, pos, resume_id, run_processed, runs,
                 run_log, history>>

VARIABLES
    model_name,               \* self.model_name
    tags_reply,               \* what the backend answers to GET /api/tags
    pull_reply,               \* what the backend answers to POST /api/pull
    ollama_pc,                \* position of is_available
    line_pos,                 \* lines of the pull stream consumed by the for loop
    pull_success,             \* the local pull_success
    pulls,                    \* POST /api/pull requests sent
    available                 \* value returned by is_available: "True" | "False"; "none" before

provider_vars == <<model_name, tags_reply, pull_reply, ollama_pc, line_pos,
                   pull_success, pulls, available>>

vars == <<engine_vars, driver_vars, provider_vars>>

\* ------------------------------------------------------------ pure helpers
Max(a, b) == IF a >= b THEN a ELSE b
Min(a, b) == IF a <= b THEN a ELSE b

\* [seq[i] for i in range(lo, hi)] with 0-indexed lo, hi (Python range, hi exclusive)
Slice(seq, lo, hi) == [k \in 1..Max(0, hi - lo) |-> seq[lo + k]]

\* `msg in context_messages`: pydantic equality, field by field
Contains(seq, m) == \E k \in 1..Len(seq) : seq[k] = m

\* a sortedness test that compares only the two ends of the list
SortedByIdEnds(msgs) == Len(msgs) < 2 \/ msgs[1].id < msgs[Len(msgs)].id

\* all(messages[i].id < messages[i + 1].id for i in range(len(messages) - 1))
SortedById(msgs) == \A i \in 1..(Len(msgs) - 1) : msgs[i].id < msgs[i + 1].id

\* {msg.id: msg for msg in messages}: a later record with the same id wins
MessageMap(msgs) ==
    [k \in {msgs[i].id : i \in 1..Len(msgs)} |->
        msgs[CHOOSE i \in 1..Len(msgs) :
                /\ msgs[i].id = k
                /\ \A j \in (i + 1)..Len(msgs) : msgs[j].id # k]]

\* the enumerate loop of get_context_for_message: 0-indexed position of the
\* first record with that id, -1 when there is none
IndexOf(msgs, i) ==
    IF \E k \in 1..Len(msgs) : msgs[k].id = i
    THEN (CHOOSE k \in 1..Len(msgs) :
            /\ msgs[k].id = i
            /\ \A j \in 1..(k - 1) : msgs[j].id # i) - 1
    ELSE -1

\* a chain walk that tests `depth < 0`: one hop too many
RECURSIVE GetReplyChainExtraHop(_, _, _)
GetReplyChainExtraHop(map, message, depth) ==
    IF depth < 0 THEN <<>>
    ELSE IF IsUserMessage(message) /\ message.reply_to_message_id # None
              /\ message.reply_to_message_id \in DOMAIN map
         THEN <<map[message.reply_to_message_id]>>
                \o GetReplyChainExtraHop(map, map[message.reply_to_message_id], depth - 1)
         ELSE <<>>

\* a chain walk that stops at a parent it has already seen
RECURSIVE WalkUnseen(_, _, _, _)
WalkUnseen(map, message, depth, seen) ==
    IF depth <= 0 THEN <<>>
    ELSE IF IsUserMessage(message) /\ message.reply_to_message_id # None
              /\ message.reply_to_message_id \in DOMAIN map
              /\ message.reply_to_message_id \notin seen
         THEN <<map[message.reply_to_message_id]>>
                \o WalkUnseen(map, map[message.reply_to_message_id], depth - 1,
                              seen \cup {message.reply_to_message_id})
         ELSE <<>>
GetReplyChainUnseen(map, message, depth) == WalkUnseen(map, message, depth, {message.id})

\* a chain walk that does not take a parent that is a service message
RECURSIVE GetReplyChainUserOnly(_, _, _)
GetReplyChainUserOnly(map, message, depth) ==
    IF depth <= 0 THEN <<>>
    ELSE IF IsUserMessage(message) /\ message.reply_to_message_id # None
              /\ message.reply_to_message_id \in DOMAIN map
              /\ IsUserMessage(map[message.reply_to_message_id])
         THEN <<map[message.reply_to_message_id]>>
                \o GetReplyChainUserOnly(map, map[message.reply_to_message_id], depth - 1)
         ELSE <<>>

\* _get_reply_chain(message, depth)
RECURSIVE GetReplyChain(_, _, _)
GetReplyChain(map, message, depth) ==
    IF depth <= 0 THEN <<>>
    ELSE IF IsUserMessage(message) /\ message.reply_to_message_id # None
         THEN IF message.reply_to_message_id \in DOMAIN map
              THEN LET parent_message == map[message.reply_to_message_id]
                   IN  <<parent_message>>
                         \o GetReplyChain(map, parent_message, depth - 1)
              ELSE <<>>
         ELSE <<>>

\* the loop over reply_chain_messages: appendleft every one not yet in the deque
RECURSIVE AddReplyChain(_, _)
AddReplyChain(context_messages, chain) ==
    IF chain = <<>> THEN context_messages
    ELSE IF Contains(context_messages, Head(chain))
         THEN AddReplyChain(context_messages, Tail(chain))
         ELSE AddReplyChain(<<Head(chain)>> \o context_messages, Tail(chain))

\* the deque returned as it is, without the final sort
SortByIdOmitted(seq) == seq

\* sorted(list, key=lambda msg: msg.id): a stable sort (insertion from the left)
RECURSIVE InsertById(_, _)
InsertById(sorted, m) ==
    IF sorted = <<>> THEN <<m>>
    ELSE IF Head(sorted).id <= m.id
         THEN <<Head(sorted)>> \o InsertById(Tail(sorted), m)
         ELSE <<m>> \o sorted

RECURSIVE SortById(_)
SortById(seq) ==
    IF seq = <<>> THEN <<>>
    ELSE InsertById(SortById(SubSeq(seq, 1, Len(seq) - 1)), seq[Len(seq)])

\* a window whose succeeding part ends one record early
WindowMessagesShort(msgs, idx, w, inc, message) ==
    Slice(msgs, Max(0, idx - w), idx)
      \o (IF inc THEN <<message>> ELSE <<>>)
      \o Slice(msgs, idx + 1, Min(Len(msgs), idx + w))

\* the positional part of get_context_for_message (lines 72-86)
WindowMessages(msgs, idx, w, inc, message) ==
    Slice(msgs, Max(0, idx - w), idx)
      \o (IF inc THEN <<message>> ELSE <<>>)
      \o Slice(msgs, idx + 1, Min(Len(msgs), idx + 1 + w))

\* get_context_for_message without the two "not found" returns
ContextForUnchecked(msgs, map, w, d, inc, message) ==
    SortById(AddReplyChain(WindowMessages(msgs, IndexOf(msgs, message.id), w, inc, message),
                           GetReplyChain(map, message, d)))

\* get_context_for_message(message) on an engine (msgs, map, w, d, inc)
ContextFor(msgs, map, w, d, inc, message) ==
    IF message.id \notin DOMAIN map THEN <<>>
    ELSE LET idx == IndexOf(msgs, message.id)
         IN  IF idx = -1 THEN <<>>
             ELSE SortById(AddReplyChain(WindowMessages(msgs, idx, w, inc, message),
                                         GetReplyChain(map, message, d)))

\* ------------------------------------------------------------ engine inputs
\* the ascending order 1..n with id i taken out and put back at position j
MoveId(n, i, j) ==
    LET rest == [k \in 1..(n - 1) |-> IF k < i THEN k ELSE k + 1]
    IN  [k \in 1..n |-> IF k < j THEN rest[k] ELSE IF k = j THEN i ELSE rest[k - 1]]

\* the orders of the ids 1..n in which one record is out of place
MovedOrders(n) == {MoveId(n, i, j) : i, j \in 1..n} \ {[k \in 1..n |-> k]}

\* Well-formed exports of n records (ids 1..n ascending): a record is a service
\* message (written -1 below) or a user message whose reply_to_message_id is
\* None, an id of the transcript (backward, self, forward) or the absent id
\* n + 1 (dangling).
SortedRecord(i, c) == IF c = -1 THEN ServiceMessage(i) ELSE UserMessage(i, c)
SortedTranscripts(n) ==
    {[k \in 1..n |-> SortedRecord(k, c[k])] : c \in [1..n -> (-1)..(n + 1)]}

\* Reordered exports of n records (ids 1..n, one record out of place): user
\* messages whose reply_to_message_id is None or an id of the transcript.
ShuffledTranscripts(n) ==
    UNION {{[k \in 1..n |-> UserMessage(p[k], c[k])] : c \in [1..n -> 0..n]} :
                p \in MovedOrders(n)}

\* Thread exports, one record longer than the other families: ids 1..n
\* ascending, every record but the first replies to the record before it or to
\* nothing (the chains of the tests: 10 -> 9 -> 7 -> 5).
ThreadLen == MaxLen + 1
ThreadTranscripts ==
    {[k \in 1..ThreadLen |-> UserMessage(k, IF c[k] /\ k > 1 THEN k - 1 ELSE None)] :
        c \in [1..ThreadLen -> BOOLEAN]}

Transcripts ==
    UNION {SortedTranscripts(n) \cup ShuffledTranscripts(n) : n \in 0..MaxLen}
      \cup ThreadTranscripts

\* lists with at least one element that is no TelegramMessage
BadLists ==
    UNION {{l \in [1..n -> {NotAMessage} \cup {UserMessage(i, None) : i \in 1..n}] :
                /\ \E k \in 1..n : l[k] = NotAMessage
                /\ \A k \in 1..n : l[k] # NotAMessage => l[k].id = k} : n \in 1..MaxLen}

\* a record that is in no transcript: a user message replying to id 1
ForeignMessage == UserMessage(ThreadLen + 1, 1)

\* what the caller passes as the target: a record of the list, or the foreign one
Targets == {messages[k] : k \in 1..Len(messages)} \cup {ForeignMessage}

\* ------------------------------------------------------- ProcessingState
\* the paths a chat export is given by
Paths == {"export_a.json", "export_b.json"}

\* Path(s): the pathlib.Path of the string s
Path(s) == [path |-> s]

\* the metadata maps of the model: the empty dict and one with an entry
NoMetadata == {}
Metadatas == {NoMetadata, {<<"note", "x">>}}

\* a new state that claims message 1 as processed already
NewStateWithProgress(p) ==
    [chat_export_path |-> Path(p),
     last_processed_message_id |-> 1,
     total_messages_processed |-> 1,
     start_time |-> None,
     end_time |-> None,
     status |-> "pending",
     metadata |-> NoMetadata]

\* ProcessingState(chat_export_path=Path(p)): the field defaults of the model
NewState(p) ==
    [chat_export_path |-> Path(p),
     last_processed_message_id |-> 0,
     total_messages_processed |-> 0,
     start_time |-> None,
     end_time |-> None,
     status |-> "pending",
     metadata |-> NoMetadata]

\* no ProcessingState object (the None of load, or no run in progress)
NoState == [NewState("") EXCEPT !.status = "none"]

\* a reset that leaves the count of processed messages as it is
ResetOfKeepsTotal(st) ==
    [st EXCEPT !.last_processed_message_id = 0,
               !.start_time = None,
               !.end_time = None,
               !.status = "pending",
               !.metadata = NoMetadata]

\* a reset that leaves the metadata as it is
ResetOfKeepsMetadata(st) ==
    [st EXCEPT !.last_processed_message_id = 0,
               !.total_messages_processed = 0,
               !.start_time = None,
               !.end_time = None,
               !.status = "pending"]

\* ProcessingState.reset()
ResetOf(st) ==
    [st EXCEPT !.last_processed_message_id = 0,
               !.total_messages_processed = 0,
               !.start_time = None,
               !.end_time = None,
               !.status = "pending",
               !.metadata = NoMetadata]

\* the JSON value of an Optional[str] field: null, or the string
JsonOptional(v) ==
    IF v = None THEN [json |-> "null", v |-> 0] ELSE [json |-> "string", v |-> v]

\* a dump that leaves end_time out, so that loading fills in the default
DumpNoEndTime(st) ==
    [chat_export_path |-> st.chat_export_path.path,
     last_processed_message_id |-> st.last_processed_message_id,
     total_messages_processed |-> st.total_messages_processed,
     start_time |-> JsonOptional(st.start_time),
     end_time |-> JsonOptional(None),
     status |-> st.status,
     metadata |-> st.metadata]

\* model_dump_json: the JSON document of a state; the path becomes its string,
\* None becomes null
Dump(st) ==
    [chat_export_path |-> st.chat_export_path.path,
     last_processed_message_id |-> st.last_processed_message_id,
     total_messages_processed |-> st.total_messages_processed,
     start_time |-> JsonOptional(st.start_time),
     end_time |-> JsonOptional(st.end_time),
     status |-> st.status,
     metadata |-> st.metadata]

\* model_validate accepts the document: the counters satisfy ge=0
Valid(doc) ==
    /\ doc.last_processed_message_id >= 0
    /\ doc.total_messages_processed >= 0

\* model_validate: the state of a JSON document; the string becomes a Path,
\* null becomes None
Validate(doc) ==
    [chat_export_path |-> Path(doc.chat_export_path),
     last_processed_message_id |-> doc.last_processed_message_id,
     total_messages_processed |-> doc.total_messages_processed,
     start_time |-> IF doc.start_time.json = "null" THEN None ELSE doc.start_time.v,
     end_time |-> IF doc.end_time.json = "null" THEN None ELSE doc.end_time.v,
     status |-> doc.status,
     metadata |-> doc.metadata]

\* the file a successful ProcessingState.save(path) leaves
Saved(st) == [kind |-> "state", doc |-> Dump(st)]

\* the state file does not exist
MissingFile == [kind |-> "missing", doc |-> Dump(NoState)]

\* the state file is no JSON document (also: a write that did not finish)
MalformedFile == [kind |-> "malformed", doc |-> Dump(NoState)]

\* the state file is JSON that does not validate: a negative counter
InvalidFile ==
    [kind |-> "state",
     doc |-> [Dump(NewState("export_a.json")) EXCEPT !.total_messages_processed = -1]]

\* a load that hands back whatever JSON document the file holds
LoadedUnvalidated(file) == IF file.kind = "state" THEN Validate(file.doc) ELSE NoState

\* ProcessingState.load(path): the state of the file, NoState (None) when the
\* file does not exist, is no JSON, or does not validate
Loaded(file) ==
    IF file.kind = "state" /\ Valid(file.doc) THEN Validate(file.doc) ELSE NoState

\* how a save can go: it writes the file; open() raises and the file is as it
\* was; the write raises after open() truncated the file; the process is
\* killed after open() truncated the file
SaveOutcomes == {"ok", "denied", "torn", "killed"}

\* a save that never writes the file
SaveResultUnwritten(st, file, o) == file

\* the file after ProcessingState.save(path) of st went as o
SaveResult(st, file, o) ==
    IF o = "ok" THEN Saved(st)
    ELSE IF o = "denied" THEN file
    ELSE MalformedFile

\* a handler that stamps end_time and leaves the status as it is
HandledKeepsStatus(st, clock) == [st EXCEPT !.end_time = clock]

\* the except handlers of analyze: mark the state failed, stamp end_time
\* with the clock, save
Handled(st, clock) == [st EXCEPT !.status = "failed", !.end_time = clock]

\* how the run ends when the handler's save went as o: the handler returns,
\* the save's exception leaves analyze, or the process was killed
HandledOutcome(o) ==
    IF o = "ok" THEN "failed" ELSE IF o = "killed" THEN "interrupted" ELSE "crashed"

\* ------------------------------------------------------------ chat exports
\* the ids of a set in ascending order
RECURSIVE Ascending(_)
Ascending(ids) ==
    IF ids = {} THEN <<>>
    ELSE LET top == CHOOSE i \in ids : \A j \in ids : j <= i
         IN  Append(Ascending(ids \ {top}), top)

\* the id sequences of chat exports: any ids of 1..MaxId in ascending order
\* (an export, an export with records deleted), and the ids 1..MaxId with one
\* record out of place
Exports == {Ascending(ids) : ids \in SUBSET (1..MaxId)} \cup MovedOrders(MaxId)

ExportFile(q) == [kind |-> "ok", ids |-> q]
MissingExport == [kind |-> "missing", ids |-> <<>>]
MalformedExport == [kind |-> "malformed", ids |-> <<>>]

\* what can be on disk where the export is looked for
ExportFiles == {ExportFile(q) : q \in Exports} \cup {MissingExport, MalformedExport}

\* the export was replaced after the last run
Replaced == [outcome |-> "replaced", path |-> "", messages |-> <<>>,
             processed |-> <<>>, persisted |-> <<>>]

\* no interrupted run before this one
NoRun == [outcome |-> "none", path |-> "", messages |-> <<>>,
          processed |-> <<>>, persisted |-> <<>>]

\* ----------------------------------------------------------- OllamaProvider
\* model_name: the default of __init__ and another model
DefaultModel == "gemma3n:latest"
Models == {DefaultModel, "llama2:7b"}

\* no request has been sent
NoReply == [kind |-> "none"]

\* the ways a request fails with a requests exception
RequestErrors == {"connection_error", "timeout", "http_error"}

\* _make_request("GET", "/api/tags"): a JSON object listing models by name,
\* a listing with an entry that has no "name", a body that is no JSON, or a
\* request error
TagsReplies ==
    {[kind |-> "ok", names |-> S] : S \in SUBSET Models}
      \cup {[kind |-> k, names |-> {}] : k \in {"no_name", "not_json"} \cup RequestErrors}

\* the lines response.iter_lines() can give: an empty keep-alive line, a line
\* that is no JSON, a JSON value that is no object, a status line saying
\* "success", any other status line, a line with an "error"
LineKinds == {"blank", "not_json", "not_object", "success", "progress", "error"}

Streams == UNION {[1..n -> LineKinds] : n \in 0..MaxLines}

\* POST /api/pull: the request fails (or raise_for_status does), or a stream
\* of lines that ends or breaks off with a requests exception
PullReplies ==
    {[kind |-> "ok", lines |-> l, ending |-> e] : l \in Streams, e \in {"end", "dropped"}}
      \cup {[kind |-> k, lines |-> <<>>, ending |-> "end"] : k \in RequestErrors}

\* a loop body that goes on after an error line and keeps pull_success
LineEffectIgnoresError(line, success) ==
    CASE line = "success" -> [pull_success |-> TRUE, next |-> "continue"]
      [] line = "not_object" -> [pull_success |-> success, next |-> "raise"]
      [] OTHER -> [pull_success |-> success, next |-> "continue"]

\* the body of `for line in response.iter_lines()` (lines 159-174): the new
\* pull_success and how the loop goes on
LineEffect(line, success) ==
    CASE line = "blank" -> [pull_success |-> success, next |-> "continue"]
      [] line = "not_json" -> [pull_success |-> success, next |-> "continue"]
      [] line = "not_object" -> [pull_success |-> success, next |-> "raise"]
      [] line = "success" -> [pull_success |-> TRUE, next |-> "continue"]
      [] line = "error" -> [pull_success |-> FALSE, next |-> "break"]
      [] OTHER -> [pull_success |-> success, next |-> "continue"]

\* str(bool) of the value returned
Returned(b) == IF b THEN "True" ELSE "False"

\* ---------------------------------------------------- the driver at start
\* analyze has not run yet: any export, no state file; no engine exists
InitDriver ==
    /\ messages = <<>>
    /\ constructed = "no"
    /\ message_map = <<>>
    /\ window_size = 0
    /\ reply_depth = 0
    /\ include_current_message = TRUE
    /\ warned = FALSE
    /\ op = "start"
    /\ target = NotAMessage
    /\ result = <<>>
    /\ hops = 0
    /\ iter_pos = 0
    /\ yielded = <<>>
    /\ first_yielded = <<>>
    /\ at_construction = <<>>
    /\ chat_file \in ExportFiles
    /\ state_file = MissingFile
    /\ state = NoState
    /\ pc = "idle"
    /\ outcome = "none"
    /\ chat_export_path = ""
    /\ chat_messages = <<>>
    /\ start_index = 0
    /\ pos = 0
    /\ resume_id = 0
    /\ run_processed = <<>>
    /\ runs = 0
    /\ answer = "none"
    /\ file_at_start = MissingFile
    /\ status_log = <<>>
    /\ persisted = <<>>
    /\ prev_run = NoRun
    /\ steps = 0
    /\ steps_saved = 0
    /\ processed_ever = {}
    /\ model_name = DefaultModel
    /\ tags_reply = NoReply
    /\ pull_reply = NoReply
    /\ ollama_pc = "idle"
    /\ line_pos = 0
    /\ pull_success = FALSE
    /\ pulls = 0
    /\ available = "none"

\* ------------------------------------------------------------------- Init
\* a caller holds a list and has not built the engine yet; analyze does not run
Init ==
    /\ messages \in Transcripts \cup BadLists
    /\ constructed = "no"
    /\ message_map = <<>>
    /\ window_size = 0
    /\ reply_depth = 0
    /\ include_current_message = TRUE
    /\ warned = FALSE
    /\ op = "start"
    /\ target = NotAMessage
    /\ result = <<>>
    /\ hops = 0
    /\ iter_pos = 0
    /\ yielded = <<>>
    /\ first_yielded = <<>>
    /\ at_construction = <<>>
    /\ chat_file = MissingExport
    /\ state_file = MissingFile
    /\ state = NoState
    /\ pc = "idle"
    /\ outcome = "none"
    /\ chat_export_path = ""
    /\ chat_messages = <<>>
    /\ start_index = 0
    /\ pos = 0
    /\ resume_id = 0
    /\ run_processed = <<>>
    /\ runs = 0
    /\ answer = "none"
    /\ file_at_start = MissingFile
    /\ status_log = <<>>
    /\ persisted = <<>>
    /\ prev_run = NoRun
    /\ steps = 0
    /\ steps_saved = 0
    /\ processed_ever = {}
    /\ model_name = DefaultModel
    /\ tags_reply = NoReply
    /\ pull_reply = NoReply
    /\ ollama_pc = "idle"
    /\ line_pos = 0
    /\ pull_success = FALSE
    /\ pulls = 0
    /\ available = "none"

\* a constructor that raises only when no element at all is a TelegramMessage
ConstructAnyMessage(w, d, inc) ==
    /\ op = "start"
    /\ IF \A k \in 1..Len(messages) : ~IsTelegramMessage(messages[k])
       THEN /\ constructed' = "TypeError"
            /\ UNCHANGED <<message_map, window_size, reply_depth,
                           include_current_message, warned>>
       ELSE /\ constructed' = "ok"
            /\ warned' = ~SortedById(messages)
            /\ message_map' = MessageMap(messages)
            /\ window_size' = w
            /\ reply_depth' = d
            /\ include_current_message' = inc
    /\ op' = "init"
    /\ at_construction' = messages
    /\ UNCHANGED <<messages, target, result, hops, iter_pos, yielded, first_yielded, driver_vars, provider_vars>>

\* SlidingWindowContext.__init__(messages, w, d, inc)
Construct(w, d, inc) ==
    /\ op = "start"
    /\ IF \E k \in 1..Len(messages) : ~IsTelegramMessage(messages[k])
       THEN /\ constructed' = "TypeError"
            /\ UNCHANGED <<message_map, window_size, reply_depth,
                           include_current_message, warned>>
       ELSE /\ constructed' = "ok"
            /\ warned' = ~SortedById(messages)
            /\ message_map' = MessageMap(messages)
            /\ window_size' = w
            /\ reply_depth' = d
            /\ include_current_message' = inc
    /\ op' = "init"
    /\ at_construction' = messages
    /\ UNCHANGED <<messages, target, result, hops, iter_pos, yielded, first_yielded, driver_vars, provider_vars>>

\* SlidingWindowContext.get_context_for_message(message), called on the engine
\* the caller has just built
GetContextForMessage(message) ==
    /\ op = "init"
    /\ constructed = "ok"
    /\ op' = "get_context"
    /\ target' = message
    /\ result' = ContextFor(messages, message_map, window_size, reply_depth,
                            include_current_message, message)
    /\ hops' = IF message.id \in DOMAIN message_map
               THEN Len(GetReplyChain(message_map, message, reply_depth))
               ELSE 0
    /\ UNCHANGED <<messages, constructed, message_map, window_size, reply_depth,
                   include_current_message, warned, iter_pos, yielded, first_yielded,
                   at_construction, driver_vars, provider_vars>>

Next ==
    \/ \E w \in 0..MaxWindow, d \in 0..MaxDepth, inc \in BOOLEAN : Construct(w, d, inc)
    \/ \E m \in Targets : GetContextForMessage(m)

Spec == Init /\ [][Next]_vars

\* ------------------------------------------- the caller's list grows
\* the records a growing chat brings: the next id, as a service message or a
\* user message that replies to nothing or to a record of the list
NewRecords(msgs) ==
    LET fresh == CHOOSE i \in 1..(Len(msgs) + MaxLen + 2) :
                    /\ \A k \in 1..Len(msgs) : msgs[k].id < i
                    /\ i = 1 \/ \E k \in 1..Len(msgs) : msgs[k].id = i - 1
    IN  {ServiceMessage(fresh)}
          \cup {UserMessage(fresh, r) : r \in {None} \cup {msgs[k].id : k \in 1..Len(msgs)}}

\* the caller appends a record to the list it passed to __init__;
\* self._messages = messages keeps that list object, the lookup is not rebuilt
AppendRecord(r) ==
    /\ constructed = "ok"
    /\ op = "init"
    /\ Len(messages) - Len(at_construction) < MaxAdded
    /\ messages' = Append(messages, r)
    /\ UNCHANGED <<constructed, message_map, window_size, reply_depth,
                   include_current_message, warned, op, target, result, hops,
                   iter_pos, yielded, first_yielded, at_construction, driver_vars, provider_vars>>

\* an engine is built, the list grows, a record of the list is looked up
NextAppend ==
    \/ \E w \in {0, MaxWindow}, d \in {0, MaxDepth}, inc \in BOOLEAN : Construct(w, d, inc)
    \/ \E r \in NewRecords(messages) : AppendRecord(r)
    \/ \E m \in Targets : GetContextForMessage(m)

SpecAppend == Init /\ [][NextAppend]_vars

\* ------------------------------------------------ OllamaProvider.is_available
InitProvider ==
    /\ messages = <<>>
    /\ constructed = "no"
    /\ message_map = <<>>
    /\ window_size = 0
    /\ reply_depth = 0
    /\ include_current_message = TRUE
    /\ warned = FALSE
    /\ op = "start"
    /\ target = NotAMessage
    /\ result = <<>>
    /\ hops = 0
    /\ iter_pos = 0
    /\ yielded = <<>>
    /\ first_yielded = <<>>
    /\ at_construction = <<>>
    /\ chat_file = MissingExport
    /\ state_file = MissingFile
    /\ state = NoState
    /\ pc = "idle"
    /\ outcome = "none"
    /\ chat_export_path = ""
    /\ chat_messages = <<>>
    /\ start_index = 0
    /\ pos = 0
    /\ resume_id = 0
    /\ run_processed = <<>>
    /\ runs = 0
    /\ answer = "none"
    /\ file_at_start = MissingFile
    /\ status_log = <<>>
    /\ persisted = <<>>
    /\ prev_run = NoRun
    /\ steps = 0
    /\ steps_saved = 0
    /\ processed_ever = {}
    /\ model_name \in Models
    /\ tags_reply \in TagsReplies
    /\ pull_reply \in PullReplies
    /\ ollama_pc = "idle"
    /\ line_pos = 0
    /\ pull_success = FALSE
    /\ pulls = 0
    /\ available = "none"

\* is_available, lines 141-150 and the handlers of lines 180-185: the listing
\* is requested; a request error, a body that is no JSON and an entry without
\* "name" end in `return False`, a listing with the model in `return True`
ListModels ==
    /\ ollama_pc = "idle"
    /\ IF tags_reply.kind # "ok"
       THEN /\ ollama_pc' = "returned"
            /\ available' = Returned(FALSE)
       ELSE IF model_name \in tags_reply.names
       THEN /\ ollama_pc' = "returned"
            /\ available' = Returned(TRUE)
       ELSE /\ ollama_pc' = "pull"
            /\ available' = available
    /\ UNCHANGED <<model_name, tags_reply, pull_reply, line_pos, pull_success, pulls,
                   engine_vars, driver_vars>>

\* lines 152-157 and 175-179: the pull is requested; a request error or an
\* error status gives pull_success = False and `return pull_success`
StartPull ==
    /\ ollama_pc = "pull"
    /\ pulls' = pulls + 1
    /\ pull_success' = FALSE
    /\ line_pos' = 0
    /\ IF pull_reply.kind # "ok"
       THEN /\ ollama_pc' = "returned"
            /\ available' = Returned(FALSE)
       ELSE /\ ollama_pc' = "stream"
            /\ available' = available
    /\ UNCHANGED <<model_name, tags_reply, pull_reply, engine_vars, driver_vars>>

\* one turn of the for loop of line 158; after a break `return pull_success`
\* (line 179), after an exception that is no RequestException the handler of
\* lines 183-185
ReadLine ==
    /\ ollama_pc = "stream"
    /\ line_pos < Len(pull_reply.lines)
    /\ LET effect == LineEffect(pull_reply.lines[line_pos + 1], pull_success)
       IN  /\ pull_success' = effect.pull_success
           /\ line_pos' = line_pos + 1
           /\ CASE effect.next = "continue" ->
                    /\ ollama_pc' = ollama_pc
                    /\ available' = available
             [] effect.next = "break" ->
                    /\ ollama_pc' = "returned"
                    /\ available' = Returned(effect.pull_success)
             [] OTHER ->
                    /\ ollama_pc' = "returned"
                    /\ available' = Returned(FALSE)
    /\ UNCHANGED <<model_name, tags_reply, pull_reply, pulls, engine_vars, driver_vars>>

\* iter_lines is exhausted, or raises because the connection broke (handler
\* of lines 175-177); then `return pull_success`
EndStream ==
    /\ ollama_pc = "stream"
    /\ line_pos = Len(pull_reply.lines)
    /\ pull_success' = IF pull_reply.ending = "dropped" THEN FALSE ELSE pull_success
    /\ ollama_pc' = "returned"
    /\ available' = Returned(pull_success')
    /\ UNCHANGED <<model_name, tags_reply, pull_reply, line_pos, pulls,
                   engine_vars, driver_vars>>

NextProvider ==
    \/ ListModels
    \/ StartPull
    \/ ReadLine
    \/ EndStream

SpecProvider == InitProvider /\ [][NextProvider]_vars

\* ---------------------------------------------------- iterate_with_context
\* the engine state no operation but __init__ writes
engine_fields == <<messages, constructed, message_map, window_size, reply_depth,
                   include_current_message, warned>>

\* the caller starts consuming iterate_with_context(): the first pass on the
\* engine just built, or a second pass after the first has ended
IterateStart ==
    /\ constructed = "ok"
    /\ op \in {"init", "iterated"}
    /\ op' = IF op = "init" THEN "iterating" ELSE "iterating_again"
    /\ iter_pos' = 0
    /\ yielded' = <<>>
    /\ UNCHANGED <<engine_fields, target, result, hops, first_yielded, at_construction, driver_vars, provider_vars>>

\* a generator that keeps the first context it computed and yields it again
IterateNextCached ==
    /\ op \in {"iterating", "iterating_again"}
    /\ iter_pos < Len(messages)
    /\ LET message == messages[iter_pos + 1]
           context == IF yielded = <<>>
                      THEN ContextFor(messages, message_map, window_size, reply_depth,
                                      include_current_message, message)
                      ELSE yielded[1][2]
       IN  yielded' = Append(yielded, <<message, context>>)
    /\ iter_pos' = iter_pos + 1
    /\ UNCHANGED <<engine_fields, op, target, result, hops, first_yielded, at_construction, driver_vars, provider_vars>>

\* one turn of `for message in self._messages`: the generator yields
\* (message, self.get_context_for_message(message))
IterateNext ==
    /\ op \in {"iterating", "iterating_again"}
    /\ iter_pos < Len(messages)
    /\ LET message == messages[iter_pos + 1]
           context == ContextFor(messages, message_map, window_size, reply_depth,
                                 include_current_message, message)
       IN  yielded' = Append(yielded, <<message, context>>)
    /\ iter_pos' = iter_pos + 1
    /\ UNCHANGED <<engine_fields, op, target, result, hops, first_yielded, at_construction, driver_vars, provider_vars>>

\* the for loop is exhausted: the generator returns (StopIteration)
IterateStop ==
    /\ op \in {"iterating", "iterating_again"}
    /\ iter_pos >= Len(messages)
    /\ op' = IF op = "iterating" THEN "iterated" ELSE "iterated_again"
    /\ first_yielded' = IF op = "iterating" THEN yielded ELSE first_yielded
    /\ UNCHANGED <<engine_fields, target, result, hops, iter_pos, yielded, at_construction,
                   driver_vars, provider_vars>>

\* engines with the smallest and the largest window and depth, iterated twice
NextIterate ==
    \/ \E w \in {0, MaxWindow}, d \in {0, MaxDepth}, inc \in BOOLEAN : Construct(w, d, inc)
    \/ IterateStart
    \/ IterateNext
    \/ IterateStop

SpecIterate == Init /\ [][NextIterate]_vars

\* ------------------------------------------------------------- the driver
\* between two runs the export at the path is replaced or damaged (a new
\* export of the chat, another file under the other path); replacing it twice
\* before the next run leaves what replacing it once leaves
ReplaceExport(f) ==
    /\ pc = "idle"
    /\ runs < MaxRuns
    /\ prev_run # Replaced
    /\ f # chat_file
    /\ chat_file' = f
    /\ prev_run' = Replaced
    /\ UNCHANGED <<state_file, state, pc, outcome, chat_export_path, chat_messages,
                   start_index, pos, resume_id, run_processed, runs, run_log, steps,
                   steps_saved, processed_ever, engine_vars, provider_vars>>

\* the export is removed between click's check of the path and the load
RemoveExport ==
    /\ pc = "started"
    /\ chat_file # MissingExport
    /\ chat_file' = MissingExport
    /\ UNCHANGED <<state_file, state, pc, outcome, chat_export_path, chat_messages,
                   start_index, pos, resume_id, run_processed, runs, run_log, history,
                   engine_vars, provider_vars>>

\* a test that sees no conflict in any stored state
ConflictNever(loaded, p) == FALSE

\* the test of line 53: there is a stored state and it is bound to another path
Conflict(loaded, p) == loaded # NoState /\ loaded.chat_export_path # Path(p)

\* analyze, lines 30-73: click checks that the path exists; load the state,
\* settle a path conflict with the operator's answer, mark the state
\* in_progress, stamp start_time if unset, and save; the save is outside the try
StartAnalyze(p, confirm, o) ==
    /\ pc = "idle"
    /\ runs < MaxRuns
    /\ chat_file.kind # "missing"
    /\ runs' = runs + 1
    /\ chat_export_path' = p
    /\ chat_messages' = <<>>
    /\ start_index' = 0
    /\ pos' = 0
    /\ resume_id' = 0
    /\ run_processed' = <<>>
    /\ persisted' = <<>>
    /\ file_at_start' = state_file
    /\ prev_run' = IF outcome = "interrupted" /\ prev_run # Replaced
                    THEN [outcome |-> outcome, path |-> chat_export_path,
                          messages |-> chat_messages, processed |-> run_processed,
                          persisted |-> persisted]
                    ELSE NoRun
    /\ LET loaded == Loaded(state_file)
           conflict == Conflict(loaded, p)
           st == IF conflict THEN [ResetOf(loaded) EXCEPT !.chat_export_path = Path(p)]
                 ELSE IF loaded = NoState THEN NewState(p)
                 ELSE loaded
           started == [st EXCEPT !.status = "in_progress",
                                 !.start_time = IF st.start_time = None
                                                THEN runs + 1 ELSE st.start_time]
           n == IF conflict \/ loaded = NoState THEN 0 ELSE steps_saved
       IN  IF conflict /\ ~confirm
           THEN /\ pc' = "idle"
                /\ outcome' = "aborted"
                /\ answer' = "declined"
                /\ status_log' = <<loaded.status>>
                /\ UNCHANGED <<state, state_file, steps, steps_saved, processed_ever>>
           ELSE /\ answer' = IF conflict THEN "confirmed" ELSE "none"
                /\ status_log' = (IF conflict THEN <<loaded.status, "pending">>
                                  ELSE <<st.status>>) \o <<"in_progress">>
                /\ state_file' = SaveResult(started, state_file, o)
                /\ steps' = n
                /\ processed_ever' = IF conflict /\ o # "denied" THEN {} ELSE processed_ever
                /\ steps_saved' = IF o = "ok" THEN n
                                  ELSE IF o = "denied" THEN steps_saved ELSE 0
                /\ IF o = "ok"
                   THEN /\ pc' = "started"
                        /\ outcome' = "running"
                        /\ state' = started
                   ELSE /\ pc' = "idle"
                        /\ outcome' = IF o = "killed" THEN "interrupted" ELSE "crashed"
                        /\ state' = NoState
    /\ UNCHANGED <<chat_file, engine_vars, provider_vars>>

\* a resume search that starts at the message found, not after it
StartIndexAtLast(ids, last) ==
    IF last > 0 /\ \E k \in 1..Len(ids) : ids[k] = last
    THEN (CHOOSE k \in 1..Len(ids) : ids[k] = last /\ \A j \in 1..(k - 1) : ids[j] # last) - 1
    ELSE 0

\* a resume search that skips the whole export when the id is not found
StartIndexSkipsStale(ids, last) ==
    IF last > 0
    THEN IF \E k \in 1..Len(ids) : ids[k] = last
         THEN CHOOSE k \in 1..Len(ids) : ids[k] = last /\ \A j \in 1..(k - 1) : ids[j] # last
         ELSE Len(ids)
    ELSE 0

\* a resume search that always starts from the first message
StartIndexFromZero(ids, last) == 0

\* a resume search that starts one record too far after the message found
StartIndexSkipsNext(ids, last) ==
    IF last > 0 /\ \E k \in 1..Len(ids) : ids[k] = last
    THEN Min(Len(ids),
             1 + CHOOSE k \in 1..Len(ids) : ids[k] = last /\ \A j \in 1..(k - 1) : ids[j] # last)
    ELSE 0

\* the resume search of lines 81-104: the index after the first message whose
\* id is last_processed_message_id, 0 when there is none or nothing was processed
StartIndex(ids, last) ==
    IF last > 0 /\ \E k \in 1..Len(ids) : ids[k] = last
    THEN CHOOSE k \in 1..Len(ids) : ids[k] = last /\ \A j \in 1..(k - 1) : ids[j] # last
    ELSE 0

\* analyze, lines 76-113: the export loads and validates; find where to start
LoadChat ==
    /\ pc = "started"
    /\ chat_file.kind = "ok"
    /\ chat_messages' = chat_file.ids
    /\ resume_id' = state.last_processed_message_id
    /\ start_index' = StartIndex(chat_file.ids, state.last_processed_message_id)
    /\ pos' = StartIndex(chat_file.ids, state.last_processed_message_id)
    /\ pc' = "loop"
    /\ UNCHANGED <<chat_file, state_file, state, outcome, chat_export_path,
                   run_processed, runs, run_log, history, engine_vars, provider_vars>>

\* analyze, lines 76-77 and 129-140: load_and_validate raises (the file is
\* gone, is no JSON, or does not validate); the handler marks the state failed,
\* stamps end_time and saves
LoadChatFails(o) ==
    /\ pc = "started"
    /\ chat_file.kind # "ok"
    /\ state_file' = SaveResult(Handled(state, runs), state_file, o)
    /\ steps_saved' = IF o = "ok" THEN steps ELSE IF o = "denied" THEN steps_saved ELSE 0
    /\ status_log' = Append(status_log, "failed")
    /\ state' = NoState
    /\ pc' = "idle"
    /\ outcome' = HandledOutcome(o)
    /\ UNCHANGED <<chat_file, chat_export_path, chat_messages, start_index, pos,
                   resume_id, run_processed, runs, answer, file_at_start, persisted,
                   prev_run, steps, processed_ever, engine_vars, provider_vars>>

\* analyze, lines 115-118: the loop takes the next message and processes it
ProcessMessage ==
    /\ pc = "loop"
    /\ pos < Len(chat_messages)
    /\ run_processed' = Append(run_processed, chat_messages[pos + 1])
    /\ processed_ever' = processed_ever \cup {chat_messages[pos + 1]}
    /\ pc' = "record"
    /\ UNCHANGED <<chat_file, state_file, state, outcome, chat_export_path,
                   chat_messages, start_index, pos, resume_id, runs, run_log, prev_run,
                   steps, steps_saved, engine_vars, provider_vars>>

\* analyze, lines 120-122 (and 135-140 when the save raises): record the
\* message as processed and save the state
RecordProgress(o, o2) ==
    /\ pc = "record"
    /\ LET message == chat_messages[pos + 1]
           recorded == [state EXCEPT !.last_processed_message_id = message,
                                     !.total_messages_processed = @ + 1]
           first == SaveResult(recorded, state_file, o)
       IN  /\ steps' = steps + 1
           /\ IF o = "ok"
              THEN /\ o2 = "ok"
                   /\ state' = recorded
                   /\ state_file' = first
                   /\ steps_saved' = steps + 1
                   /\ persisted' = Append(persisted, message)
                   /\ pos' = pos + 1
                   /\ pc' = "loop"
                   /\ UNCHANGED <<outcome, status_log>>
              ELSE IF o = "killed"
              THEN /\ o2 = "ok"
                   /\ state' = NoState
                   /\ state_file' = first
                   /\ steps_saved' = 0
                   /\ pc' = "idle"
                   /\ outcome' = "interrupted"
                   /\ UNCHANGED <<pos, status_log, persisted>>
              ELSE /\ state' = NoState
                   /\ state_file' = SaveResult(Handled(recorded, runs), first, o2)
                   /\ steps_saved' = IF o2 = "ok" THEN steps + 1
                                     ELSE IF o2 = "denied" /\ o = "denied" THEN steps_saved
                                     ELSE 0
                   /\ persisted' = IF o2 = "ok" THEN Append(persisted, message)
                                   ELSE persisted
                   /\ status_log' = Append(status_log, "failed")
                   /\ pc' = "idle"
                   /\ outcome' = HandledOutcome(o2)
                   /\ UNCHANGED pos
    /\ UNCHANGED <<chat_file, chat_export_path, chat_messages, start_index,
                   resume_id, run_processed, runs, answer, file_at_start, prev_run,
                   processed_ever, engine_vars, provider_vars>>

\* analyze, lines 124-127 (and 135-140 when the save raises): the loop is
\* over; mark the state completed, stamp end_time and save
FinishAnalyze(o, o2) ==
    /\ pc = "loop"
    /\ pos >= Len(chat_messages)
    /\ LET completed == [state EXCEPT !.status = "completed", !.end_time = runs]
           first == SaveResult(completed, state_file, o)
       IN  IF o = "ok"
           THEN /\ o2 = "ok"
                /\ state_file' = first
                /\ steps_saved' = steps
                /\ status_log' = Append(status_log, "completed")
                /\ outcome' = "completed"
           ELSE IF o = "killed"
           THEN /\ o2 = "ok"
                /\ state_file' = first
                /\ steps_saved' = 0
                /\ status_log' = Append(status_log, "completed")
                /\ outcome' = "interrupted"
           ELSE /\ state_file' = SaveResult(Handled(completed, runs), first, o2)
                /\ steps_saved' = IF o2 = "ok" THEN steps
                                  ELSE IF o2 = "denied" /\ o = "denied" THEN steps_saved
                                  ELSE 0
                /\ status_log' = status_log \o <<"completed", "failed">>
                /\ outcome' = HandledOutcome(o2)
    /\ state' = NoState
    /\ pc' = "idle"
    /\ UNCHANGED <<chat_file, chat_export_path, chat_messages, start_index, pos,
                   resume_id, run_processed, runs, answer, file_at_start, persisted,
                   prev_run, steps, processed_ever, engine_vars, provider_vars>>

\* the process is killed between two steps of analyze
Interrupt ==
    /\ pc # "idle"
    /\ state' = NoState
    /\ pc' = "idle"
    /\ outcome' = "interrupted"
    /\ UNCHANGED <<chat_file, state_file, chat_export_path, chat_messages, start_index,
                   pos, resume_id, run_processed, runs, run_log, history, engine_vars, provider_vars>>

\* the reset_state command, lines 145-155: load the state; if there is one,
\* reset it and save it
ResetState(o) ==
    /\ pc = "idle"
    /\ Loaded(state_file) # NoState
    /\ file_at_start' = state_file
    /\ state_file' = SaveResult(ResetOf(Loaded(state_file)), state_file, o)
    /\ steps_saved' = IF o = "denied" THEN steps_saved ELSE 0
    /\ processed_ever' = IF o = "denied" THEN processed_ever ELSE {}
    /\ outcome' = IF o = "ok" THEN "reset" ELSE "reset_failed"
    /\ UNCHANGED <<chat_file, state, pc, chat_export_path, chat_messages,
                   start_index, pos, resume_id, run_processed, runs, answer,
                   status_log, persisted, prev_run, steps, engine_vars, provider_vars>>

NextDriver ==
    \/ RemoveExport
    \/ \E p \in Paths, confirm \in BOOLEAN, o \in SaveOutcomes : StartAnalyze(p, confirm, o)
    \/ LoadChat
    \/ \E o \in SaveOutcomes : LoadChatFails(o)
    \/ ProcessMessage
    \/ \E o, o2 \in SaveOutcomes : RecordProgress(o, o2)
    \/ \E o, o2 \in SaveOutcomes : FinishAnalyze(o, o2)
    \/ Interrupt
    \/ \E o \in SaveOutcomes : ResetState(o)

SpecDriver == InitDriver /\ [][NextDriver]_vars

\* the driver over exports that change between runs, every save succeeding
\* and no run killed
NextReexport ==
    \/ \E f \in ExportFiles : ReplaceExport(f)
    \/ \E p \in Paths, confirm \in BOOLEAN : StartAnalyze(p, confirm, "ok")
    \/ LoadChat
    \/ LoadChatFails("ok")
    \/ ProcessMessage
    \/ RecordProgress("ok", "ok")
    \/ FinishAnalyze("ok", "ok")
    \/ ResetState("ok")

SpecReexport == InitDriver /\ [][NextReexport]_vars

\* ------------------------------------------- ProcessingState on its own
\* the state objects a caller may hold: either path, any counters, either
\* timestamp set or unset, any status, metadata empty or not
StateValues ==
    {[chat_export_path |-> Path(p),
      last_processed_message_id |-> l,
      total_messages_processed |-> t,
      start_time |-> s,
      end_time |-> e,
      status |-> u,
      metadata |-> m] :
        p \in Paths, l \in 0..MaxId, t \in {0, MaxId}, s \in {None, 1}, e \in {None, 2},
        u \in {"pending", "in_progress", "completed", "failed"}, m \in Metadatas}

\* a caller holds a state object; the state file is missing, is no JSON, or
\* does not validate
InitState ==
    /\ messages = <<>>
    /\ constructed = "no"
    /\ message_map = <<>>
    /\ window_size = 0
    /\ reply_depth = 0
    /\ include_current_message = TRUE
    /\ warned = FALSE
    /\ op = "start"
    /\ target = NotAMessage
    /\ result = <<>>
    /\ hops = 0
    /\ iter_pos = 0
    /\ yielded = <<>>
    /\ first_yielded = <<>>
    /\ at_construction = <<>>
    /\ chat_file = MissingExport
    /\ state_file \in {MissingFile, MalformedFile, InvalidFile}
    /\ state \in StateValues
    /\ pc = "idle"
    /\ outcome = "none"
    /\ chat_export_path = ""
    /\ chat_messages = <<>>
    /\ start_index = 0
    /\ pos = 0
    /\ resume_id = 0
    /\ run_processed = <<>>
    /\ runs = 0
    /\ answer = "none"
    /\ file_at_start = MissingFile
    /\ status_log = <<>>
    /\ persisted = <<>>
    /\ prev_run = NoRun
    /\ steps = 0
    /\ steps_saved = 0
    /\ processed_ever = {}
    /\ model_name = DefaultModel
    /\ tags_reply = NoReply
    /\ pull_reply = NoReply
    /\ ollama_pc = "idle"
    /\ line_pos = 0
    /\ pull_success = FALSE
    /\ pulls = 0
    /\ available = "none"

\* state.save(state_file), lines 32-47
SaveState(o) ==
    /\ state # NoState
    /\ file_at_start' = state_file
    /\ state_file' = SaveResult(state, state_file, o)
    /\ outcome' = IF o = "ok" THEN "saved"
                  ELSE IF o = "killed" THEN "interrupted" ELSE "save_raised"
    /\ UNCHANGED <<chat_file, state, pc, chat_export_path, chat_messages, start_index,
                   pos, resume_id, run_processed, runs, answer, status_log, persisted,
                   history, engine_vars, provider_vars>>

\* state = ProcessingState.load(state_file), lines 49-80
LoadState ==
    /\ file_at_start' = state_file
    /\ state' = Loaded(state_file)
    /\ outcome' = "loaded"
    /\ UNCHANGED <<chat_file, state_file, pc, chat_export_path, chat_messages,
                   start_index, pos, resume_id, run_processed, runs, answer, status_log,
                   persisted, history, engine_vars, provider_vars>>

\* state.reset(), lines 82-90: the object is reset, nothing is written
Reset ==
    /\ state # NoState
    /\ file_at_start' = state_file
    /\ state' = ResetOf(state)
    /\ outcome' = "reset_object"
    /\ UNCHANGED <<chat_file, state_file, pc, chat_export_path, chat_messages,
                   start_index, pos, resume_id, run_processed, runs, answer, status_log,
                   persisted, history, engine_vars, provider_vars>>

NextState ==
    \/ \E o \in SaveOutcomes : SaveState(o)
    \/ LoadState
    \/ Reset
    \/ \E o \in SaveOutcomes : ResetState(o)

SpecState == InitState /\ [][NextState]_vars

\* ------------------------------------------------ claims: context engine
\* the call whose result the state holds
Called == op = "get_context"

\* the target of the call is a record of the transcript
TargetInTranscript == Contains(messages, target)

\* 1-indexed position of the target in the transcript
TargetPos == CHOOSE k \in 1..Len(messages) : messages[k] = target

\* the positions of the window around the target, the target's own excluded
NeighbourPositions ==
    {q \in 1..Len(messages) :
        /\ q # TargetPos
        /\ q >= TargetPos - window_size
        /\ q <= TargetPos + window_size}

Neighbours == {messages[q] : q \in NeighbourPositions}

ResultSet == {result[k] : k \in 1..Len(result)}

ResultIds == [k \in 1..Len(result) |-> result[k].id]

\* the record a record replies to, when it is a user message whose
\* reply_to_message_id is in the lookup; NotAMessage stands for "none"
ParentOf(m) ==
    IF m.type = "message" /\ m.reply_to_message_id # None
         /\ m.reply_to_message_id \in DOMAIN message_map
    THEN message_map[m.reply_to_message_id]
    ELSE NotAMessage

\* the record k reply hops above m
RECURSIVE AncestorAt(_, _)
AncestorAt(m, k) == IF k = 0 THEN m ELSE ParentOf(AncestorAt(m, k - 1))

\* the records reachable from the target in 1..d reply hops
AncestorsWithin(d) == {AncestorAt(target, k) : k \in 1..d} \ {NotAMessage}

\* C1: for every configuration, transcript (unique ids) and reply-link
\* structure, the context of a target of the transcript is sorted strictly
\* ascending by id and holds no id twice.
C1_SortedNoDuplicates ==
    (Called /\ TargetInTranscript) =>
        /\ \A i \in 1..(Len(result) - 1) : result[i].id < result[i + 1].id
        /\ \A i, j \in 1..Len(result) : result[i].id = result[j].id => i = j

\* a reordered transcript, a cyclic chain walked twice, three records returned
C1_Witness ==
    /\ Called /\ TargetInTranscript
    /\ ~SortedById(messages)
    /\ hops >= 2
    /\ AncestorAt(target, 2) = target
    /\ Len(result) = 3

\* C2: with reply_depth = 0 and include_target, the context of the target at
\* 0-indexed position p is exactly the records at positions max(0, p - w) ..
\* min(n - 1, p + w): as a set always, and as that very slice when the
\* transcript is in ascending id order.
C2_WindowOnly ==
    (Called /\ TargetInTranscript /\ reply_depth = 0 /\ include_current_message) =>
        LET lo == Max(1, TargetPos - window_size)
            hi == Min(Len(messages), TargetPos + window_size)
        IN  /\ ResultSet = {messages[q] : q \in lo..hi}
            /\ Len(result) = hi - lo + 1
            /\ (\A i, j \in 1..Len(messages) : i < j => messages[i].id < messages[j].id)
                 => result = SubSeq(messages, lo, hi)

\* target at the start of three records, window 1: the shorter window of two,
\* although the target replies to the third record
C2_Witness ==
    /\ Called /\ TargetInTranscript /\ reply_depth = 0 /\ include_current_message
    /\ window_size = 1 /\ Len(messages) = 3 /\ TargetPos = 1
    /\ target.reply_to_message_id = messages[3].id
    /\ Len(result) = 2

\* C3: with include_target false the context of a target of the transcript
\* does not hold the target's id, whatever the reply links, and holds the
\* window neighbours of the target.
C3_TargetAbsent ==
    (Called /\ TargetInTranscript /\ ~include_current_message) =>
        /\ \A k \in 1..Len(result) : result[k].id # target.id
        /\ Neighbours \subseteq ResultSet

\* C4: the records of the context are the window, the target if included, and
\* exactly the ancestors reachable from the target in 1..reply_depth reply
\* hops through records of the lookup; the walk makes at most reply_depth hops.
C4_AncestorsWithinDepth ==
    (Called /\ TargetInTranscript) =>
        /\ ResultSet = Neighbours
                         \cup (IF include_current_message THEN {target} ELSE {})
                         \cup AncestorsWithin(reply_depth)
        /\ hops <= reply_depth

\* the chain 4 -> 3 -> 2 -> 1 with reply_depth 2 and no window: 2, 3 and 4 are
\* returned, 1 is not
C4_Witness ==
    /\ Called /\ reply_depth = 2 /\ window_size = 0 /\ include_current_message
    /\ Len(messages) = 4 /\ target = messages[4]
    /\ \A k \in 2..4 : messages[k].reply_to_message_id = messages[k - 1].id
    /\ messages[1].reply_to_message_id = None
    /\ ResultIds = <<2, 3, 4>>

\* the reply chain of the target never ends: every ancestor has a parent in the
\* lookup, so the chain runs into a cycle
EndlessChain ==
    \A k \in 0..Len(messages) : ParentOf(AncestorAt(target, k)) # NotAMessage

\* C5: on a reply chain that contains a cycle the walk makes exactly
\* reply_depth hops and stops.
C5_CycleExactlyDepthHops ==
    (Called /\ TargetInTranscript /\ EndlessChain) => hops = reply_depth

\* a message that replies to itself, walked twice
C5_Witness ==
    /\ Called /\ TargetInTranscript /\ EndlessChain
    /\ target.reply_to_message_id = target.id
    /\ reply_depth = 2 /\ hops = 2

\* C6: a target whose id is not in the lookup gets the empty context,
\* whatever the configuration and the transcript (the empty one included).
C6_AbsentTargetEmpty ==
    (Called /\ target.id \notin DOMAIN message_map) => result = <<>>

\* an absent target that replies to a record of the transcript, on an engine
\* with a window and a reply depth
C6_Witness ==
    /\ Called /\ target.id \notin DOMAIN message_map
    /\ target.reply_to_message_id \in DOMAIN message_map
    /\ window_size >= 1 /\ reply_depth >= 1 /\ include_current_message
    /\ result = <<>>

\* C8: a list with any element that is no message record makes the
\* constructor raise TypeError: no engine exists and no call is answered.
C8_TypeErrorOnNonMessage ==
    (op # "start" /\ \E k \in 1..Len(messages) : messages[k].type = "str") =>
        /\ constructed = "TypeError"
        /\ op = "init"
        /\ message_map = <<>>

\* one non-message among two well-formed records
C8_Witness ==
    /\ op = "init" /\ constructed = "TypeError"
    /\ Len(messages) = 3
    /\ Cardinality({k \in 1..3 : messages[k].type = "message"}) = 2

\* C9: a list of message records is always constructed; the warning is logged
\* exactly when the ids are not in ascending order, the list keeps its order and
\* the window is taken from the positions of that order.
C9_WarnsIffUnsorted ==
    (op # "start" /\ \A k \in 1..Len(messages) : messages[k].type # "str") =>
        /\ constructed = "ok"
        /\ warned <=> (\E i, j \in 1..Len(messages) : i < j /\ messages[i].id >= messages[j].id)
        /\ (Called /\ TargetInTranscript) => Neighbours \subseteq ResultSet

\* the test's order 3, 1, 2: warned, built, and the window of id 3 holds id 1
C9_Witness ==
    /\ Called /\ constructed = "ok" /\ warned
    /\ Len(messages) = 3
    /\ messages[1].id = 3 /\ messages[2].id = 1 /\ messages[3].id = 2
    /\ target = messages[1] /\ window_size = 1 /\ reply_depth = 0
    /\ ResultIds = <<1, 3>>

\* C7: iterate_with_context yields one (message, context) pair per transcript
\* message, in transcript order, each context being that of
\* get_context_for_message(message); it ends after the last message, yields
\* nothing for the empty transcript, and a second pass yields the same pairs.
C7_IterateEqualsContextFor ==
    /\ op \in {"iterating", "iterating_again", "iterated", "iterated_again"} =>
        /\ iter_pos <= Len(messages)
        /\ Len(yielded) = iter_pos
        /\ \A k \in 1..Len(yielded) :
            /\ yielded[k][1] = messages[k]
            /\ yielded[k][2] = ContextFor(messages, message_map, window_size, reply_depth,
                                          include_current_message, messages[k])
    /\ op \in {"iterated", "iterated_again"} => Len(yielded) = Len(messages)
    /\ op = "iterated_again" => yielded = first_yielded

\* a second pass over a reordered transcript of three records has ended, the
\* three contexts not all the same
C7_Witness ==
    /\ op = "iterated_again"
    /\ Len(messages) = 3 /\ ~SortedById(messages)
    /\ Len(yielded) = 3
    /\ yielded[1][2] # yielded[2][2]
    /\ yielded[2][2] # yielded[3][2]

\* ---------------------------------------------------- claims: scan driver
\* this run found last_processed_message_id > 0 in the export it loaded
ResumeFound == resume_id > 0 /\ \E k \in 1..Len(chat_messages) : chat_messages[k] = resume_id

\* 1-indexed position of that record (0-indexed position i is ResumePos - 1)
ResumePos == CHOOSE k \in 1..Len(chat_messages) : chat_messages[k] = resume_id

\* C10: a run that starts with last_processed_id > 0, found at 0-indexed
\* position i of the export, processes the records at positions i+1 .. n-1 in
\* that order (all of them once it completes) and none of positions 0 .. i.
C10_ResumeAfterLastProcessed ==
    ResumeFound =>
        LET rest == SubSeq(chat_messages, ResumePos + 1, Len(chat_messages))
        IN  /\ Len(run_processed) <= Len(rest)
            /\ \A j \in 1..Len(run_processed) : run_processed[j] = rest[j]
            /\ outcome = "completed" => run_processed = rest
            /\ \A j \in 1..Len(run_processed), k \in 1..ResumePos :
                    run_processed[j] # chat_messages[k]

\* a completed run over three records that resumed after the first one
C10_Witness ==
    /\ ResumeFound /\ outcome = "completed"
    /\ Len(chat_messages) = 3 /\ ResumePos = 1
    /\ run_processed = <<chat_messages[2], chat_messages[3]>>

\* this run loaded the export and found no record with the id the state held
StaleResume ==
    /\ pc \in {"loop", "record"}
    /\ resume_id > 0
    /\ \A k \in 1..Len(chat_messages) : chat_messages[k] # resume_id

\* C11: a run that starts with last_processed_id > 0 held by no record of the
\* export restarts from position 0, and the resume step changes neither
\* last_processed_id nor total_processed: until the first message of the run
\* is recorded, the state in memory and on disk keeps the stale id and the
\* count it was loaded with.
C11_StaleIdKeptUntilRecorded ==
    StaleResume =>
        /\ start_index = 0
        /\ run_processed = SubSeq(chat_messages, 1, Len(run_processed))
        /\ resume_id = Loaded(file_at_start).last_processed_message_id
        /\ persisted = <<>> =>
                /\ state.last_processed_message_id = resume_id
                /\ state.total_messages_processed =
                        Loaded(file_at_start).total_messages_processed
                /\ Loaded(state_file).last_processed_message_id = resume_id
                /\ Loaded(state_file).total_messages_processed =
                        Loaded(file_at_start).total_messages_processed
        /\ persisted # <<>> =>
                state.last_processed_message_id = persisted[Len(persisted)]

\* the first message of a restarted run is in flight, the stale id still stored
C11_Witness ==
    /\ StaleResume
    /\ pc = "record"
    /\ run_processed = <<chat_messages[1]>>
    /\ persisted = <<>>
    /\ Len(chat_messages) >= 2
    /\ state.last_processed_message_id = resume_id
    /\ state.total_messages_processed >= 2

\* this run restarts an interrupted run on the same path and the same export
Restarted ==
    /\ prev_run.outcome = "interrupted"
    /\ prev_run.path = chat_export_path
    /\ prev_run.messages = chat_messages
    /\ chat_messages # <<>>

\* the ids both the interrupted run and its restart have processed
ProcessedTwice ==
    {prev_run.processed[j] : j \in 1..Len(prev_run.processed)} \cap
    {run_processed[j] : j \in 1..Len(run_processed)}

\* C12: when an interrupted run is restarted on the same export (unique ids),
\* the restart processes no message whose progress the interrupted run had
\* persisted, and at most one message is processed by both runs.
C12_CrashSafeProgress ==
    Restarted =>
        /\ \A j \in 1..Len(prev_run.persisted) : prev_run.persisted[j] \notin ProcessedTwice
        /\ Cardinality(ProcessedTwice) <= 1

\* C13: within a run last_processed_id only increases: every step that
\* records a message leaves last_processed_id greater than it was before the
\* step, whatever state was stored and whatever export the run is given.
C13_LastIdOnlyIncreases ==
    [][Len(persisted') = Len(persisted) + 1 =>
            persisted'[Len(persisted')] > state.last_processed_message_id]_vars

\* C14: total_processed is the number of messages recorded as processed
\* since the state was created or last reset, in memory and on disk, over any
\* sequence of runs, resumes, failures and kills: one more per recorded
\* message, zero after a reset or for a new state, and nothing else changes it.
C14_TotalCountsRecordedSteps ==
    /\ state # NoState => state.total_messages_processed = steps
    /\ Loaded(state_file) # NoState =>
            Loaded(state_file).total_messages_processed = steps_saved

\* a restart has recorded a message on top of those the interrupted run recorded
C14_Witness ==
    /\ Restarted
    /\ prev_run.persisted # <<>>
    /\ persisted # <<>>
    /\ pc = "loop"
    /\ state.total_messages_processed = Len(prev_run.persisted) + Len(persisted)
    /\ Loaded(state_file).total_messages_processed = state.total_messages_processed

\* C15: completed and failed are terminal for a run: once the run has set
\* the status to completed or to failed it assigns no other status, also when
\* a save raises. (status_log[1] is the status the run started from; the
\* run's own assignments follow.)
C15_TerminalStatusStays ==
    \A k \in 2..(Len(status_log) - 1) : status_log[k] \notin {"completed", "failed"}

\* C16: a path conflict is never settled without the operator. A run whose
\* stored state is bound to another path processes a message only after the
\* operator confirmed the reset, and then the state is bound to the new path
\* with zero counters, in memory and on disk, before the first message is
\* recorded; when the operator declines, the run aborts, processes nothing and
\* leaves the state file exactly as it was.
C16_ConflictNeedsOperator ==
    /\ answer = "declined" =>
            /\ pc = "idle"
            /\ run_processed = <<>>
            /\ outcome = "aborted" => state_file = file_at_start
    /\ answer = "confirmed" /\ pc # "idle" /\ persisted = <<>> =>
            /\ state.chat_export_path = Path(chat_export_path)
            /\ state.last_processed_message_id = 0
            /\ state.total_messages_processed = 0
            /\ Loaded(state_file) = state
            /\ start_index = 0
    /\ run_processed # <<>> /\ outcome \notin {"reset", "reset_failed"} =>
            \/ answer = "confirmed"
            \/ Loaded(file_at_start) = NoState
            \/ Loaded(file_at_start).chat_export_path = Path(chat_export_path)

\* after a confirmed reset the first message of the other export is in
\* flight; the stored state had progress on the old path
C16_Witness ==
    /\ answer = "confirmed"
    /\ pc = "record"
    /\ persisted = <<>>
    /\ run_processed = <<chat_messages[1]>>
    /\ Loaded(file_at_start).total_messages_processed >= 2
    /\ Loaded(file_at_start).chat_export_path # Path(chat_export_path)
    /\ state.total_messages_processed = 0

\* ------------------------------------------- claims: ProcessingState
\* what reset makes of a state: the same path, everything else as new
AsNew(st) ==
    [chat_export_path |-> st.chat_export_path,
     last_processed_message_id |-> 0,
     total_messages_processed |-> 0,
     start_time |-> None,
     end_time |-> None,
     status |-> "pending",
     metadata |-> NoMetadata]

\* C17: reset() of a state with any status and any counters zeroes
\* last_processed_id and total_processed, clears both timestamps and the
\* metadata, sets the status to pending and leaves the path as it is; the
\* reset_state command persists the reset state.
C17_ResetClearsAndPersists ==
    [][/\ outcome' = "reset_object" => state' = AsNew(state)
       /\ outcome' = "reset" =>
            /\ Loaded(state_file) # NoState
            /\ Loaded(state_file') = AsNew(Loaded(state_file))]_vars

\* the command has reset a failed state that had progress, both timestamps
\* and metadata
C17_Witness ==
    /\ outcome = "reset"
    /\ Loaded(file_at_start).status = "failed"
    /\ Loaded(file_at_start).last_processed_message_id > 0
    /\ Loaded(file_at_start).total_messages_processed > 0
    /\ Loaded(file_at_start).start_time # None
    /\ Loaded(file_at_start).end_time # None
    /\ Loaded(file_at_start).metadata # NoMetadata
    /\ Loaded(state_file) = AsNew(Loaded(file_at_start))

\* C18: save followed by load of the same file gives back a state equal to
\* the saved one in every field, for every status (failed included), the
\* timestamps set or unset, any counters and any metadata.
C18_SaveLoadRoundTrip ==
    outcome = "saved" =>
        /\ state_file = Saved(state)
        /\ Loaded(state_file) = state

\* a failed state with progress, both timestamps and metadata was saved and
\* loads back equal
C18_Witness ==
    /\ outcome = "saved"
    /\ state.status = "failed"
    /\ state.start_time # None
    /\ state.end_time # None
    /\ state.last_processed_message_id > 0
    /\ state.metadata # NoMetadata
    /\ Loaded(state_file) = state

\* C19: load never raises. A missing state file gives no prior state, a file
\* that is no JSON or does not validate gives no prior state as well, a valid
\* file gives its state, and load leaves the file as it was (a malformed file
\* is neither deleted nor rewritten).
C19_LoadToleratesBadFiles ==
    outcome = "loaded" =>
        /\ state_file = file_at_start
        /\ state_file.kind = "missing" => state = NoState
        /\ state_file.kind = "malformed" => state = NoState
        /\ state_file.kind = "state" /\ ~Valid(state_file.doc) => state = NoState
        /\ state_file.kind = "state" /\ Valid(state_file.doc) =>
                /\ state # NoState
                /\ Dump(state) = state_file.doc

\* a malformed file was loaded: no prior state, the file still there
C19_Witness ==
    /\ outcome = "loaded"
    /\ file_at_start = MalformedFile
    /\ state_file = MalformedFile
    /\ state = NoState

\* ---------------------------------------------- claims: failed loads
\* the run ended in the handler after load_and_validate raised: the export
\* is missing or does not load, and the handler's save went through
LoadFailed == outcome = "failed" /\ chat_file.kind # "ok"

\* the counters the run started with: those of the stored state, zero when
\* there was none or the operator confirmed a reset
CountersAtStart ==
    IF answer = "confirmed" THEN <<0, 0>>
    ELSE <<Loaded(file_at_start).last_processed_message_id,
           Loaded(file_at_start).total_messages_processed>>

\* C20: when loading the export fails (missing, no JSON, not valid) the run
\* processes no message and ends with the persisted state failed, its end
\* timestamp set, and last_processed_id and total_processed as they were when
\* the run started.
C20_LoadFailureMarksFailed ==
    /\ chat_file.kind # "ok" => run_processed = <<>>
    /\ LoadFailed =>
            /\ pc = "idle"
            /\ Loaded(state_file).status = "failed"
            /\ Loaded(state_file).end_time # None
            /\ Loaded(state_file).chat_export_path = Path(chat_export_path)
            /\ <<Loaded(state_file).last_processed_message_id,
                  Loaded(state_file).total_messages_processed>> = CountersAtStart

\* a run on a state with progress failed to load the export, which was
\* removed after the run had started
C20_Witness ==
    /\ LoadFailed
    /\ chat_file = MissingExport
    /\ answer = "none"
    /\ Loaded(file_at_start).last_processed_message_id > 0
    /\ Loaded(state_file).total_messages_processed >= 2
    /\ Loaded(state_file).status = "failed"

\* ------------------------------------------- claims: failures and resume
\* this run started from a stored state that a failed run on the same path left
AfterFailedRun ==
    /\ pc \in {"loop", "record"}
    /\ answer = "none"
    /\ Loaded(file_at_start).status = "failed"
    /\ Loaded(file_at_start).last_processed_message_id > 0

C22_RecordedStepByStep ==
    /\ pc \in {"loop", "record"} =>
            /\ Loaded(state_file) = state
            /\ state.status = "in_progress"
            /\ state.total_messages_processed = CountersAtStart[2] + Len(persisted)
            /\ Len(run_processed) = Len(persisted) + (IF pc = "record" THEN 1 ELSE 0)
            /\ persisted = SubSeq(run_processed, 1, Len(persisted))
            /\ persisted # <<>> =>
                    state.last_processed_message_id = persisted[Len(persisted)]
    /\ Len(run_processed) - Len(persisted) \in {0, 1}
    /\ /\ persisted # <<>>
       /\ Loaded(state_file) # NoState
       /\ outcome \notin {"reset", "reset_failed"}
       => Loaded(state_file).last_processed_message_id = persisted[Len(persisted)]

\* two messages are recorded and saved, the third not yet taken
C22_Witness ==
    /\ pc = "loop"
    /\ Len(chat_messages) = 3
    /\ persisted = <<chat_messages[1], chat_messages[2]>>
    /\ run_processed = persisted
    /\ state.total_messages_processed = 2
    /\ Loaded(state_file) = state

\* this run found no stored state: the file was missing or did not load
NoPriorState == pc # "idle" /\ Loaded(file_at_start) = NoState

\* C23: a run that finds no stored state creates one that is pending, has
\* last_processed_id = 0 and total_processed = 0 and is bound to the path
\* asked for, and then processes the export from position 0.
C23_FreshStateFromZero ==
    NoPriorState =>
        /\ answer = "none"
        /\ status_log = <<"pending", "in_progress">>
        /\ state.chat_export_path = Path(chat_export_path)
        /\ state.start_time # None
        /\ state.end_time = None
        /\ state.metadata = NoMetadata
        /\ state.total_messages_processed = Len(persisted)
        /\ persisted = <<>> => state.last_processed_message_id = 0
        /\ pc \in {"loop", "record"} =>
                /\ resume_id = 0
                /\ start_index = 0
                /\ run_processed = SubSeq(chat_messages, 1, Len(run_processed))

\* a first run without a state file has processed the first two of three
\* records in order
C23_Witness ==
    /\ NoPriorState
    /\ file_at_start = MissingFile
    /\ pc = "record"
    /\ Len(chat_messages) = 3
    /\ run_processed = <<chat_messages[1], chat_messages[2]>>
    /\ state.total_messages_processed = 1

\* the records at positions 0 .. i of the export have all been processed,
\* for every position i that holds the id last
PrefixProcessed(ids, last) ==
    \A i \in 1..Len(ids) :
        ids[i] = last => \A j \in 1..i : ids[j] \in processed_ever

\* C24: over any runs, kills and failures on the same export (unique ids, no
\* reset in between), whenever last_processed_id is the id at position i, the
\* records at positions 0 .. i have all been processed; and a state that is
\* completed means every record of the export has been processed.
C24_ContiguousPrefix ==
    chat_file.kind = "ok" =>
        /\ PrefixProcessed(chat_file.ids, Loaded(state_file).last_processed_message_id)
        /\ PrefixProcessed(chat_file.ids, state.last_processed_message_id)
        /\ Loaded(state_file).status = "completed" =>
                \A j \in 1..Len(chat_file.ids) : chat_file.ids[j] \in processed_ever

\* a run that restarted an interrupted one has completed three records, the
\* interrupted run had recorded at least one
C24_Witness ==
    /\ Restarted
    /\ prev_run.persisted # <<>>
    /\ outcome = "completed"
    /\ Len(chat_messages) = 3
    /\ run_processed # <<>>
    /\ Loaded(state_file).status = "completed"
    /\ Loaded(state_file).last_processed_message_id = chat_messages[3]
    /\ processed_ever = {chat_messages[1], chat_messages[2], chat_messages[3]}

\* ------------------------------------------ claims: dangling references
\* the chain cannot go on from m: m is a service message, or replies to an id
\* that is not in the lookup
ChainBreaksAt(m) ==
    \/ m.type = "service"
    \/ /\ m.type = "message"
       /\ m.reply_to_message_id # None
       /\ m.reply_to_message_id \notin DOMAIN message_map

\* the chain of the target reaches its k-th ancestor and breaks there
\* (k = 0: at the target itself)
DanglingAfter(k) ==
    /\ \A j \in 0..k : AncestorAt(target, j) # NotAMessage
    /\ ChainBreaksAt(AncestorAt(target, k))

\* C25: a dangling reply reference is tolerated. When the target or one of
\* its ancestors replies to an id that is not in the lookup, or is a service
\* message, the walk stops there without an error and the context is the
\* window, the target if included, and the ancestors found up to there.
C25_DanglingReplyTolerated ==
    \A k \in 0..(reply_depth - 1) :
        (Called /\ TargetInTranscript /\ DanglingAfter(k)) =>
            /\ constructed = "ok"
            /\ hops = k
            /\ ResultSet = Neighbours
                             \cup (IF include_current_message THEN {target} ELSE {})
                             \cup {AncestorAt(target, j) : j \in 1..k}
            /\ \A i \in 1..(Len(result) - 1) : result[i].id < result[i + 1].id

\* the target replies to a service message and the walk, with depth left,
\* stops at it: the service message is in the context
C25_Witness ==
    /\ Called /\ TargetInTranscript
    /\ reply_depth = 2 /\ window_size = 0 /\ include_current_message
    /\ DanglingAfter(1)
    /\ AncestorAt(target, 1).type = "service"
    /\ hops = 1
    /\ Len(result) = 2

\* --------------------------------------- claims: records added afterwards
RecordsAtConstruction == {at_construction[k] : k \in 1..Len(at_construction)}

AddedRecords ==
    {messages[k] : k \in (Len(at_construction) + 1)..Len(messages)}

\* C26: the engine reflects only the records present at construction. After
\* records are added to the caller's list, the context of an added record
\* is empty and the context of an original record holds only records that
\* were in the list at construction.
C26_OnlyConstructionRecords ==
    (Called /\ AddedRecords # {}) =>
        /\ target \in AddedRecords => result = <<>>
        /\ target \in RecordsAtConstruction => ResultSet \subseteq RecordsAtConstruction

\* ------------------------------------------------ claims: is_available
ListingFailed == tags_reply.kind # "ok"

Listed == tags_reply.kind = "ok" /\ model_name \in tags_reply.names

\* the pull went through without any error: the request succeeded, the
\* stream ended, every JSON line was an object
PullWithoutError ==
    /\ pull_reply.kind = "ok"
    /\ pull_reply.ending = "end"
    /\ \A k \in 1..Len(pull_reply.lines) : pull_reply.lines[k] # "not_object"

HasLine(kind) == \E k \in 1..Len(pull_reply.lines) : pull_reply.lines[k] = kind

C28_ExactlyOnceCounting ==
    (pc = "idle" /\ outcome = "completed" /\ chat_file.kind = "ok") =>
        LET stored == Loaded(state_file)
            n == Len(chat_file.ids)
        IN  /\ stored # NoState
            /\ stored.status = "completed"
            /\ stored.total_messages_processed = n
            /\ n > 0 => stored.last_processed_message_id = chat_file.ids[n]

\* a run that had recorded one message of three was interrupted; the next
\* run processed the other two and completed with a total of three
C28_Witness ==
    /\ pc = "idle" /\ outcome = "completed"
    /\ Restarted
    /\ Len(prev_run.persisted) = 1
    /\ Len(chat_messages) = 3
    /\ Len(run_processed) = 2
    /\ Loaded(state_file).total_messages_processed = 3

\* ---------------------------------------- claims: re-running a finished scan
\* the current (or last) run of analyze found a completed state for its own
\* path; the export is the one that state was completed on
RerunOfCompleted ==
    /\ outcome \in {"running", "completed", "failed", "interrupted", "crashed"}
    /\ answer = "none"
    /\ chat_file.kind = "ok"
    /\ Loaded(file_at_start) # NoState
    /\ Loaded(file_at_start).status = "completed"

\* last_processed_id, total_processed and start_time of a state
Progress(st) ==
    <<st.last_processed_message_id, st.total_messages_processed, st.start_time>>

\* C29: re-running is idempotent on a completed scan. A run started on the
\* same path and export while the stored state is completed processes no
\* message and leaves last_processed_id, total_processed and start_time as
\* they were, in memory and in the file; when it has run to its end the
\* stored status is completed again.
C29_RerunOfCompletedIdempotent ==
    RerunOfCompleted =>
        /\ run_processed = <<>>
        /\ persisted = <<>>
        /\ state # NoState => Progress(state) = Progress(Loaded(file_at_start))
        /\ Loaded(state_file) # NoState =>
                Progress(Loaded(state_file)) = Progress(Loaded(file_at_start))
        /\ outcome = "completed" =>
                /\ Loaded(state_file) # NoState
                /\ Loaded(state_file).status = "completed"

\* a scan of three messages completed in run 1 is run again: run 2 ends
\* completed with the same progress and a new end_time
C29_Witness ==
    /\ RerunOfCompleted
    /\ pc = "idle" /\ outcome = "completed"
    /\ runs = 2
    /\ Len(chat_messages) = 3
    /\ start_index = 3
    /\ Loaded(state_file).total_messages_processed = 3
    /\ Loaded(state_file).start_time = 1
    /\ Loaded(state_file).end_time = 2
    /\ Loaded(file_at_start).end_time = 1

\* ------------------------------------------ claims: timestamps and status
\* C30: timestamps and status agree in every state the driver or reset has
\* written to the file: completed or failed implies end_time is set,
\* in_progress implies start_time is set and end_time is not, pending implies
\* neither is set.
C30_TimestampsMatchStatus ==
    Loaded(state_file) # NoState =>
        LET stored == Loaded(state_file)
        IN  /\ stored.status \in {"completed", "failed"} => stored.end_time # None
            /\ stored.status = "in_progress" =>
                    (stored.start_time # None /\ stored.end_time = None)
            /\ stored.status = "pending" =>
                    (stored.start_time = None /\ stored.end_time = None)

====
